---- MODULE Spec2Model ----
(***************************************************************************)
(* pii-shield: the detection-reconciliation and masking engine.            *)
(*                                                                         *)
(* PIIShield (core/shield.py) drives an Azure detector and a Presidio      *)
(* detector, merges their spans with the widest-coverage rule              *)
(* (_merge_entities), masks the text (core/masker.py) and counts the       *)
(* entities.  The two detection backends and the anonymizer library are    *)
(* external: a backend is modelled by the outcome it produces for the      *)
(* text of the call.                                                       *)
(***************************************************************************)
EXTENDS Integers, Sequences, FiniteSets, TLC

\* Offsets of the spans handed to _merge_entities range over 0..MaxPos.
MaxPos == 4
\* Most spans the two detectors return together for one _merge_entities call.
MaxSpans == 3
\* Most spans of the Azure list in one _merge_entities call, the Presidio list
\* having at most MaxSpans - MaxAzureSpans; the merge works on the
\* concatenation of the two lists, Azure's first (line 323).
MaxAzureSpans == 1
\* Most spans the two backends return together for one protect/detect_only call.
MaxDetected == 2
\* Length of the text of a protect/detect_only call.
TextLen == 3
\* Most predictions and ground-truth entities together, in one sample for
\* match_predictions_to_ground_truth and in the whole dataset for evaluate.
MaxLabelled == 3
\* Most samples in the dataset of evaluate, and the length of their texts.
MaxSamples == 2
SampleLen == 1
\* Largest count in a DetectionMetrics whose ratios are computed.
MaxCount == 4
\* Most predictions and most ground-truth entities of the sample matched at
\* the evaluator's overlap thresholds, and the length of its text.
MaxPredictions == 2
MaxGroundTruth == 2
MatchLen == 2

VARIABLES
    default_strategy,  \* PIIShield.default_strategy
    azure_only,        \* PIIShield.azure_only
    use_azure,         \* PIIShield.use_azure
    azure_detector,    \* PIIShield.azure_detector is not None
    detector,          \* PIIShield.detector is not None
    azure_result,      \* what AzurePIIDetector.detect does for the text
    presidio_result,   \* what PIIDetector.detect does for the text
    azure_entities,    \* local of protect / argument of _merge_entities
    presidio_entities, \* local of protect / argument of _merge_entities
    dataset,           \* the labelled samples given to the evaluator
    call               \* the last call and what it returned

vars == <<default_strategy, azure_only, use_azure, azure_detector, detector,
          azure_result, presidio_result, azure_entities, presidio_entities,
          dataset, call>>

shield == <<default_strategy, azure_only, use_azure, azure_detector, detector>>
backends == <<azure_result, presidio_result>>

-----------------------------------------------------------------------------
(* Spans *)

\* entity type and confidence (in hundredths) a detection carries
Labels == {<<"PERSON", 85>>, <<"EMAIL_ADDRESS", 100>>}

\* presidio_analyzer.RecognizerResult as the shield uses it
RecognizerResult(entity_type, start, end, score) ==
    [entity_type |-> entity_type, start |-> start, end |-> end, score |-> score]

RecognizerResults ==
    {RecognizerResult(l[1], s, e, l[2]) :
        <<s, e, l>> \in {<<s, e, l>> \in (0..MaxPos) \X (0..MaxPos) \X Labels : s < e}}

SeqsUpTo(S, n) == UNION {[1..k -> S] : k \in 0..n}

Range(s) == {s[i] : i \in 1..Len(s)}

-----------------------------------------------------------------------------
(* PIIShield._merge_entities *)

\* faulty variant of _entities_overlap_simple: inclusion instead of intersection
entities_overlap_inclusion(entity1, entity2) ==
    \/ entity2.start <= entity1.start /\ entity1.end <= entity2.end
    \/ entity1.start <= entity2.start /\ entity2.end <= entity1.end

_entities_overlap_simple(entity1, entity2) ==
    ~(entity1.end <= entity2.start \/ entity1.start >= entity2.end)

\* faulty variant of MergeKeyLess: the candidates are visited from the last start back
merge_key_descending(x, y) ==
    \/ x.start > y.start
    \/ x.start = y.start /\ -(x.end - x.start) < -(y.end - y.start)

\* the sort key of line 329, compared as Python compares tuples
MergeKeyLess(x, y) ==
    \/ x.start < y.start
    \/ x.start = y.start /\ -(x.end - x.start) < -(y.end - y.start)

\* faulty variant of InsertByMergeKey: an unstable sort, an element goes before
\* the elements of equal key
InsertByMergeKeyBeforeEqual(sorted, x) ==
    LET n == Cardinality({i \in 1..Len(sorted) : MergeKeyLess(sorted[i], x)})
    IN  SubSeq(sorted, 1, n) \o <<x>> \o SubSeq(sorted, n + 1, Len(sorted))

\* list.sort is stable: an element goes after every element whose key is not greater
InsertByMergeKey(sorted, x) ==
    LET n == Cardinality({i \in 1..Len(sorted) : ~MergeKeyLess(x, sorted[i])})
    IN  SubSeq(sorted, 1, n) \o <<x>> \o SubSeq(sorted, n + 1, Len(sorted))

\* faulty variant of SortByMergeKey: the sort of line 329 is missing
all_entities_unsorted(s) == s

RECURSIVE SortByMergeKey(_)
SortByMergeKey(s) ==
    IF s = <<>> THEN <<>>
    ELSE InsertByMergeKey(SortByMergeKey(SubSeq(s, 1, Len(s) - 1)), s[Len(s)])

InsertByStart(sorted, x) ==
    LET n == Cardinality({i \in 1..Len(sorted) : ~(x.start < sorted[i].start)})
    IN  SubSeq(sorted, 1, n) \o <<x>> \o SubSeq(sorted, n + 1, Len(sorted))

RECURSIVE SortByStart(_)
SortByStart(s) ==
    IF s = <<>> THEN <<>>
    ELSE InsertByStart(SortByStart(SubSeq(s, 1, Len(s) - 1)), s[Len(s)])

\* the inner loop over merged (lines 339-352), from index i on: the indices
\* collected for removal and should_add; the loop breaks at the first
\* overlapping span that is not narrower than the entity
RECURSIVE ScanMerged(_, _, _, _)
ScanMerged(entity, merged, i, entities_to_remove) ==
    IF i > Len(merged)
    THEN [should_add |-> TRUE, entities_to_remove |-> entities_to_remove]
    ELSE IF _entities_overlap_simple(entity, merged[i])
         THEN IF entity.end - entity.start > merged[i].end - merged[i].start
              THEN ScanMerged(entity, merged, i + 1, entities_to_remove \cup {i})
              ELSE [should_add |-> FALSE, entities_to_remove |-> entities_to_remove]
         ELSE ScanMerged(entity, merged, i + 1, entities_to_remove)

\* merged without the positions in idx (lines 355-356)
RECURSIVE PopAll(_, _, _)
PopAll(merged, idx, i) ==
    IF i > Len(merged) THEN <<>>
    ELSE (IF i \in idx THEN <<>> ELSE <<merged[i]>>) \o PopAll(merged, idx, i + 1)

\* faulty variant of MergeStep: an entity that overlaps accepted spans is
\* joined with them into one span from the least start to the greatest end
MergeStepWidening(merged, entity) ==
    LET idx == {i \in 1..Len(merged) : _entities_overlap_simple(entity, merged[i])}
        starts == {entity.start} \cup {merged[i].start : i \in idx}
        ends == {entity.end} \cup {merged[i].end : i \in idx}
    IN  Append(PopAll(merged, idx, 1),
               [entity EXCEPT !.start = CHOOSE x \in starts : \A y \in starts : x <= y,
                              !.end = CHOOSE x \in ends : \A y \in ends : x >= y])

\* faulty variant of MergeStep: an overlapping entity is always skipped (first seen wins)
MergeStepFirstWins(merged, entity) ==
    IF \E i \in 1..Len(merged) : _entities_overlap_simple(entity, merged[i])
    THEN merged ELSE Append(merged, entity)

\* one iteration of the outer loop (lines 335-359)
MergeStep(merged, entity) ==
    LET scan == ScanMerged(entity, merged, 1, {})
        kept == PopAll(merged, scan.entities_to_remove, 1)
    IN  IF scan.should_add THEN Append(kept, entity) ELSE kept

\* merged after the first k entities of all_entities
RECURSIVE MergeLoop(_, _)
MergeLoop(all_entities, k) ==
    IF k = 0 THEN <<>>
    ELSE MergeStep(MergeLoop(all_entities, k - 1), all_entities[k])

\* faulty variant of _merge_entities: the loop of line 335 stops before the last entity
merge_entities_skipping_last(azure, presidio) ==
    LET all_entities == azure \o presidio
    IN  IF all_entities = <<>> THEN <<>>
        ELSE SortByStart(MergeLoop(SortByMergeKey(all_entities), Len(all_entities) - 1))

\* faulty variant of _merge_entities: the final sort (line 362) runs with reverse=True
merge_entities_sorted_in_reverse(azure, presidio) ==
    LET all_entities == azure \o presidio
        merged == MergeLoop(SortByMergeKey(all_entities), Len(all_entities))
    IN  IF all_entities = <<>> THEN <<>>
        ELSE [i \in 1..Len(merged) |-> SortByStart(merged)[Len(merged) + 1 - i]]

_merge_entities(azure, presidio) ==
    LET all_entities == azure \o presidio
    IN  IF all_entities = <<>> THEN <<>>
        ELSE SortByStart(MergeLoop(SortByMergeKey(all_entities), Len(all_entities)))

-----------------------------------------------------------------------------
(* PIIShield.__init__ *)

\* faulty variant of PIIShield_init: a failed Azure initialization leaves
\* use_azure as it was computed (lines 139-140 missing)
PIIShield_init_keeping_use_azure(endpoint_set, AZURE_AVAILABLE, use_azure_arg, azure_only_arg, azure_init_ok) ==
    LET wanted == IF use_azure_arg = "None"
                  THEN AZURE_AVAILABLE /\ endpoint_set
                  ELSE use_azure_arg = "True" /\ AZURE_AVAILABLE /\ endpoint_set
    IN  IF \/ azure_only_arg /\ ~endpoint_set
           \/ endpoint_set /\ ~AZURE_AVAILABLE
           \/ wanted /\ ~azure_init_ok /\ azure_only_arg
        THEN [raised |-> TRUE, azure_only |-> azure_only_arg, use_azure |-> FALSE,
              azure_detector |-> FALSE, detector |-> FALSE]
        ELSE [raised |-> FALSE,
              azure_only |-> azure_only_arg,
              use_azure |-> wanted,
              azure_detector |-> wanted /\ azure_init_ok,
              detector |-> ~azure_only_arg]

\* The fields __init__ leaves for the given environment and arguments, or
\* raised.  use_azure_arg is "None", "True" or "False"; azure_init_ok says whether
\* AzurePIIDetector(...) returns (TRUE) or raises (FALSE).
PIIShield_init(endpoint_set, AZURE_AVAILABLE, use_azure_arg, azure_only_arg, azure_init_ok) ==
    LET failed == [raised |-> TRUE, azure_only |-> azure_only_arg, use_azure |-> FALSE,
                   azure_detector |-> FALSE, detector |-> FALSE]
        wanted == IF use_azure_arg = "None"
                  THEN AZURE_AVAILABLE /\ endpoint_set
                  ELSE use_azure_arg = "True" /\ AZURE_AVAILABLE /\ endpoint_set
    IN  IF azure_only_arg /\ ~endpoint_set THEN failed
        ELSE IF endpoint_set /\ ~AZURE_AVAILABLE THEN failed
        ELSE IF wanted /\ ~azure_init_ok /\ azure_only_arg THEN failed
        ELSE [raised |-> FALSE,
              azure_only |-> azure_only_arg,
              use_azure |-> wanted /\ azure_init_ok,
              azure_detector |-> wanted /\ azure_init_ok,
              detector |-> ~azure_only_arg]

ConstructedShields ==
    {c \in {PIIShield_init(e, a, u, o, i) :
                <<e, a, u, o, i>> \in BOOLEAN \X BOOLEAN \X {"None", "True", "False"}
                                      \X BOOLEAN \X BOOLEAN} : ~c.raised}

-----------------------------------------------------------------------------
(* The detection backends *)

\* AzurePIIDetector.CATEGORY_MAPPING, on the categories the model uses
CATEGORY_MAPPING == [c \in {"Person", "Email"} |->
                        IF c = "Person" THEN "PERSON" ELSE "EMAIL_ADDRESS"]

\* category and confidence (in hundredths) an Azure entity carries
AzureLabels == {<<"Person", 85>>, <<"Email", 100>>}

AzurePIIEntity(category, confidence_score, offset, length) ==
    [category |-> category, confidence_score |-> confidence_score,
     offset |-> offset, length |-> length]

AzurePIIEntities ==
    {AzurePIIEntity(l[1], l[2], o, n) :
        <<o, n, l>> \in {<<o, n, l>> \in (0..TextLen) \X (1..TextLen) \X AzureLabels :
                            o + n <= TextLen}}

\* what the Azure service does for the text: a response with entities, an
\* error (an is_error document or an AzureError, both returned as an is_error
\* result), or an exception that detect lets through
AzureOutcomes(n) ==
    {[kind |-> "is_error", entities |-> <<>>], [kind |-> "raises", entities |-> <<>>]}
    \cup {[kind |-> "ok", entities |-> s] : s \in SeqsUpTo(AzurePIIEntities, n)}

\* what the Presidio analyzer does for the text: find results or raise
PresidioOutcomes(n) ==
    {[kind |-> "raises", entities |-> <<>>]}
    \cup {[kind |-> "ok", entities |-> s] :
             s \in SeqsUpTo({r \in RecognizerResults : r.end <= TextLen}, n)}

\* a detector that was not initialised has no outcome
NoBackend == [kind |-> "absent", entities |-> <<>>]

\* a backend call that never returns
Hangs == [kind |-> "hangs", entities |-> <<>>]

\* score_threshold of protect, detect_only and of both detect methods when
\* the caller passes none (in hundredths)
DEFAULT_SCORE_THRESHOLD == 50

\* the score_threshold values a caller passes
Thresholds == {DEFAULT_SCORE_THRESHOLD, 90}

\* AzurePIIDetector.detect: the entities of the response whose confidence
\* reaches score_threshold
AzurePIIDetector_detect(score_threshold) ==
    [kind |-> azure_result.kind,
     entities |-> SelectSeq(azure_result.entities,
                            LAMBDA entity : entity.confidence_score >= score_threshold)]

\* PIIDetector.DEFAULT_ENTITIES, on the entity types the model uses
DEFAULT_ENTITIES == {"PERSON", "EMAIL_ADDRESS"}

\* the entities arguments a caller passes: none (or an empty list, which
\* detect treats alike, line 175) is {}, a list of entity types is their set
EntityFilters == {{}, {"PERSON"}}

\* PIIDetector.detect: what the analyzer returns when it is given entities
\* and score_threshold, the results of those types whose score reaches it
PIIDetector_detect(entities, score_threshold) ==
    [kind |-> presidio_result.kind,
     entities |-> SelectSeq(presidio_result.entities,
                            LAMBDA result :
                               /\ result.entity_type \in
                                     (IF entities = {} THEN DEFAULT_ENTITIES ELSE entities)
                               /\ result.score >= score_threshold)]

_convert_azure_to_presidio(entities) ==
    [i \in 1..Len(entities) |->
        RecognizerResult(CATEGORY_MAPPING[entities[i].category],
                         entities[i].offset,
                         entities[i].offset + entities[i].length,
                         entities[i].confidence_score)]

\* faulty variant of _detect_with_azure: a failure is raised whatever raise_on_error is
detect_with_azure_always_raising(raise_on_error) ==
    LET azure_result_ == AzurePIIDetector_detect(DEFAULT_SCORE_THRESHOLD)
    IN  IF azure_detector /\ azure_result_.kind = "ok"
        THEN [raised |-> FALSE, called |-> TRUE, hung |-> FALSE,
              entities |-> _convert_azure_to_presidio(azure_result_.entities)]
        ELSE IF azure_detector /\ azure_result_.kind = "hangs"
        THEN [raised |-> FALSE, called |-> TRUE, hung |-> TRUE, entities |-> <<>>]
        ELSE [raised |-> TRUE, called |-> azure_detector, hung |-> FALSE,
              entities |-> <<>>]

\* [raised, called, hung, entities]: called says whether AzurePIIDetector.detect
\* ran, hung that it never returned.  detect is called with the text and the
\* language only (line 238), so with its default score_threshold.
_detect_with_azure(raise_on_error) ==
    LET azure_result_ == AzurePIIDetector_detect(DEFAULT_SCORE_THRESHOLD)
    IN  IF azure_detector /\ azure_result_.kind = "ok"
        THEN [raised |-> FALSE, called |-> TRUE, hung |-> FALSE,
              entities |-> _convert_azure_to_presidio(azure_result_.entities)]
        ELSE IF azure_detector /\ azure_result_.kind = "hangs"
        THEN [raised |-> FALSE, called |-> TRUE, hung |-> TRUE, entities |-> <<>>]
        ELSE [raised |-> raise_on_error, called |-> azure_detector, hung |-> FALSE,
              entities |-> <<>>]

_detect_with_presidio(entities, score_threshold) ==
    LET results == PIIDetector_detect(entities, score_threshold)
    IN  IF detector /\ results.kind = "ok"
        THEN [raised |-> FALSE, called |-> TRUE, hung |-> FALSE,
              entities |-> results.entities]
        ELSE IF detector /\ results.kind = "hangs"
        THEN [raised |-> FALSE, called |-> TRUE, hung |-> TRUE, entities |-> <<>>]
        ELSE [raised |-> TRUE, called |-> detector, hung |-> FALSE, entities |-> <<>>]

-----------------------------------------------------------------------------
(* PIIMasker *)

\* the analysed text, one character per offset
Text == [i \in 1..TextLen |-> ToString(i)]

Strategies == {"replace", "redact"}

\* operators[entity_type] for the entity types of analyzer_results; the
\* f-string "<{entity_type}>" is the three pieces it is built from
_get_default_operators(strategy, analyzer_results) ==
    [t \in {analyzer_results[i].entity_type : i \in 1..Len(analyzer_results)} |->
        IF strategy = "replace"
        THEN [operator_name |-> "replace", new_value |-> <<"<", t, ">">>]
        ELSE [operator_name |-> "redact", new_value |-> <<>>]]

\* what an operator puts in place of the span's text
Operate(operator) ==
    IF operator.operator_name = "replace" THEN operator.new_value ELSE <<>>

Min(a, b) == IF a < b THEN a ELSE b

\* buf[:start] + replacement + buf[end:], with Python's clamped slices
Splice(buf, start, end, replacement) ==
    SubSeq(buf, 1, Min(start, Len(buf))) \o replacement \o SubSeq(buf, end + 1, Len(buf))

\* the spans in descending order of start
InsertByStartDescending(sorted, x) ==
    LET n == Cardinality({i \in 1..Len(sorted) : ~(x.start > sorted[i].start)})
    IN  SubSeq(sorted, 1, n) \o <<x>> \o SubSeq(sorted, n + 1, Len(sorted))

RECURSIVE SortByStartDescending(_)
SortByStartDescending(s) ==
    IF s = <<>> THEN <<>>
    ELSE InsertByStartDescending(SortByStartDescending(SubSeq(s, 1, Len(s) - 1)), s[Len(s)])

RECURSIVE SpliceAll(_, _, _, _)
SpliceAll(buf, ordered, k, operators) ==
    IF k > Len(ordered) THEN buf
    ELSE SpliceAll(Splice(buf, ordered[k].start, ordered[k].end,
                          Operate(operators[ordered[k].entity_type])),
                   ordered, k + 1, operators)

\* AnonymizerEngine.anonymize belongs to the presidio_anonymizer library, not to
\* this repository; it is modelled as the design describes the masking engine:
\* the spans are taken in descending order of start and each replacement is
\* spliced into the buffer at the span's offsets
anonymize(text, analyzer_results, operators) ==
    SpliceAll(text, SortByStartDescending(analyzer_results), 1, operators)

mask(text, analyzer_results, strategy) ==
    anonymize(text, analyzer_results, _get_default_operators(strategy, analyzer_results))

-----------------------------------------------------------------------------
(* PIIShield.protect and detect_only *)

\* count.get(entity_type, 0)
Get(count, entity_type) == IF entity_type \in DOMAIN count THEN count[entity_type] ELSE 0

\* count with count[entity_type] = value
Put(count, entity_type, value) ==
    [t \in DOMAIN count \cup {entity_type} |-> IF t = entity_type THEN value ELSE count[t]]

\* faulty variant of CountLoop: a type already seen is not counted again
RECURSIVE CountLoopOncePerType(_, _)
CountLoopOncePerType(entities, k) ==
    IF k = 0 THEN <<>>
    ELSE LET count == CountLoopOncePerType(entities, k - 1)
         IN  Put(count, entities[k].entity_type, 1)

\* count after the first k entities (lines 504-507)
RECURSIVE CountLoop(_, _)
CountLoop(entities, k) ==
    IF k = 0 THEN <<>>
    ELSE LET count == CountLoop(entities, k - 1)
             entity_type == entities[k].entity_type
         IN  Put(count, entity_type, Get(count, entity_type) + 1)

_count_entities(entities) == CountLoop(entities, Len(entities))

NoCall ==
    [op |-> "none", returned |-> FALSE, raised |-> FALSE, azure_called |-> FALSE,
     presidio_called |-> FALSE, masker_called |-> FALSE, entities |-> {},
     strategy |-> "none", score_threshold |-> DEFAULT_SCORE_THRESHOLD, detected_entities |-> <<>>,
     masked_text |-> <<>>, entity_count |-> <<>>]

\* faulty variant of Detect: azure_only calls _detect_with_azure with raise_on_error=False
DetectAzureOnlySoft(entities, score_threshold) ==
    IF azure_only
    THEN LET a == _detect_with_azure(FALSE)
         IN  [raised |-> a.raised, hung |-> a.hung,
              azure_called |-> a.called, presidio_called |-> FALSE,
              azure_entities |-> a.entities, presidio_entities |-> <<>>,
              detected_entities |-> a.entities]
    ELSE IF use_azure /\ azure_detector /\ detector
    THEN LET a == _detect_with_azure(FALSE)
             p == _detect_with_presidio(entities, score_threshold)
             reached == ~a.raised /\ ~a.hung
         IN  [raised |-> a.raised \/ (reached /\ p.raised),
              hung |-> a.hung \/ (reached /\ p.hung),
              azure_called |-> a.called, presidio_called |-> reached /\ p.called,
              azure_entities |-> a.entities,
              presidio_entities |-> IF reached THEN p.entities ELSE <<>>,
              detected_entities |-> IF reached /\ ~p.raised /\ ~p.hung
                                    THEN _merge_entities(a.entities, p.entities)
                                    ELSE <<>>]
    ELSE LET p == _detect_with_presidio(entities, score_threshold)
         IN  [raised |-> p.raised, hung |-> p.hung,
              azure_called |-> FALSE, presidio_called |-> p.called,
              azure_entities |-> <<>>, presidio_entities |-> p.entities,
              detected_entities |-> p.entities]

\* the detection branch shared by protect (lines 188-204) and detect_only
\* (lines 470-485): [raised, hung, azure_called, presidio_called,
\* azure_entities, presidio_entities, detected_entities]; reached says that
\* the dual branch got to its Presidio call
Detect(entities, score_threshold) ==
    IF azure_only
    THEN LET a == _detect_with_azure(TRUE)
         IN  [raised |-> a.raised, hung |-> a.hung,
              azure_called |-> a.called, presidio_called |-> FALSE,
              azure_entities |-> a.entities, presidio_entities |-> <<>>,
              detected_entities |-> a.entities]
    ELSE IF use_azure /\ azure_detector /\ detector
    THEN LET a == _detect_with_azure(FALSE)
             p == _detect_with_presidio(entities, score_threshold)
             reached == ~a.raised /\ ~a.hung
         IN  [raised |-> a.raised \/ (reached /\ p.raised),
              hung |-> a.hung \/ (reached /\ p.hung),
              azure_called |-> a.called, presidio_called |-> reached /\ p.called,
              azure_entities |-> a.entities,
              presidio_entities |-> IF reached THEN p.entities ELSE <<>>,
              detected_entities |-> IF reached /\ ~p.raised /\ ~p.hung
                                    THEN _merge_entities(a.entities, p.entities)
                                    ELSE <<>>]
    ELSE LET p == _detect_with_presidio(entities, score_threshold)
         IN  [raised |-> p.raised, hung |-> p.hung,
              azure_called |-> FALSE, presidio_called |-> p.called,
              azure_entities |-> <<>>, presidio_entities |-> p.entities,
              detected_entities |-> p.entities]

\* faulty variant of protect: an Azure failure in the dual branch switches the
\* shield to Presidio for the calls that follow, as __init__ does (lines 139-140)
protect_disabling_azure(entities, strategy, score_threshold) ==
    \E d \in {Detect(entities, score_threshold)} :
        LET started == [NoCall EXCEPT !.op = "protect",
                            !.strategy = IF strategy = "None" THEN default_strategy
                                         ELSE strategy,
                            !.entities = entities,
                            !.score_threshold = score_threshold,
                            !.azure_called = d.azure_called,
                            !.presidio_called = d.presidio_called]
            azure_failed == /\ ~azure_only /\ use_azure /\ azure_detector /\ detector
                            /\ azure_result.kind \in {"is_error", "raises"}
        IN  /\ azure_entities' = d.azure_entities
            /\ presidio_entities' = d.presidio_entities
            /\ call' = IF d.hung THEN started
                       ELSE IF d.raised THEN [started EXCEPT !.raised = TRUE]
                       ELSE [started EXCEPT
                                !.returned = TRUE,
                                !.masker_called = TRUE,
                                !.detected_entities = d.detected_entities,
                                !.masked_text = mask(Text, d.detected_entities,
                                                     started.strategy),
                                !.entity_count = _count_entities(d.detected_entities)]
            /\ use_azure' = (use_azure /\ ~azure_failed)
            /\ azure_detector' = (azure_detector /\ ~azure_failed)
            /\ UNCHANGED <<default_strategy, azure_only, detector, backends, dataset>>

\* strategy is "None" when the caller passes none (line 184); a call whose
\* detector never returns stays as it was started: neither returned nor raised
protect(entities, strategy, score_threshold) ==
    \E d \in {Detect(entities, score_threshold)} :
        LET started == [NoCall EXCEPT !.op = "protect",
                            !.strategy = IF strategy = "None" THEN default_strategy
                                         ELSE strategy,
                            !.entities = entities,
                            !.score_threshold = score_threshold,
                            !.azure_called = d.azure_called,
                            !.presidio_called = d.presidio_called]
        IN  /\ azure_entities' = d.azure_entities
            /\ presidio_entities' = d.presidio_entities
            /\ call' = IF d.hung THEN started
                       ELSE IF d.raised THEN [started EXCEPT !.raised = TRUE]
                       ELSE [started EXCEPT
                                !.returned = TRUE,
                                !.masker_called = TRUE,
                                !.detected_entities = d.detected_entities,
                                !.masked_text = mask(Text, d.detected_entities,
                                                     started.strategy),
                                !.entity_count = _count_entities(d.detected_entities)]
            /\ UNCHANGED <<shield, backends, dataset>>

detect_only(entities, score_threshold) ==
    \E d \in {Detect(entities, score_threshold)} :
        /\ azure_entities' = d.azure_entities
        /\ presidio_entities' = d.presidio_entities
        /\ call' = [NoCall EXCEPT !.op = "detect_only",
                        !.entities = entities,
                        !.score_threshold = score_threshold,
                        !.returned = ~d.hung /\ ~d.raised,
                        !.raised = d.raised,
                        !.azure_called = d.azure_called,
                        !.presidio_called = d.presidio_called,
                        !.detected_entities = d.detected_entities]
        /\ UNCHANGED <<shield, backends, dataset>>

\* the shield as __init__ leaves it, with no call made yet
Constructed ==
    /\ default_strategy \in Strategies
    /\ \E c \in ConstructedShields :
          /\ azure_only = c.azure_only
          /\ use_azure = c.use_azure
          /\ azure_detector = c.azure_detector
          /\ detector = c.detector
    /\ azure_entities = <<>>
    /\ presidio_entities = <<>>
    /\ dataset = <<>>
    /\ call = NoCall

Init ==
    /\ Constructed
    /\ azure_result \in IF azure_detector THEN AzureOutcomes(MaxDetected) ELSE {NoBackend}
    /\ presidio_result \in IF detector
                           THEN PresidioOutcomes(MaxDetected - Len(azure_result.entities))
                           ELSE {NoBackend}

Next ==
    \/ \E strategy \in Strategies \cup {"None"} :
          protect({}, strategy, DEFAULT_SCORE_THRESHOLD)
    \/ detect_only({}, DEFAULT_SCORE_THRESHOLD)

Spec == Init /\ [][Next]_vars

-----------------------------------------------------------------------------
(* Calls that pass a score_threshold, on a shield built with the default
   default_strategy *)

InitThreshold == Init /\ default_strategy = "replace"

NextThreshold ==
    \/ \E score_threshold \in Thresholds : protect({}, "None", score_threshold)
    \/ \E score_threshold \in Thresholds : detect_only({}, score_threshold)

SpecThreshold == InitThreshold /\ [][NextThreshold]_vars

-----------------------------------------------------------------------------
(* Calls that pass a list of entity types, on the same shield *)

NextEntities ==
    \/ \E entities \in EntityFilters : protect(entities, "None", DEFAULT_SCORE_THRESHOLD)
    \/ \E entities \in EntityFilters : detect_only(entities, DEFAULT_SCORE_THRESHOLD)

SpecEntities == InitThreshold /\ [][NextEntities]_vars

-----------------------------------------------------------------------------
(* Backends that may never return *)

InitTimeout ==
    /\ Constructed
    /\ azure_result \in IF azure_detector
                        THEN AzureOutcomes(MaxDetected) \cup {Hangs}
                        ELSE {NoBackend}
    /\ presidio_result \in IF detector
                           THEN PresidioOutcomes(MaxDetected - Len(azure_result.entities))
                                \cup {Hangs}
                           ELSE {NoBackend}

SpecTimeout == InitTimeout /\ [][Next]_vars

-----------------------------------------------------------------------------
(* The merge on its own: Init draws the two lists, MergeEntities applies it *)

InitMerge ==
    /\ default_strategy = "replace"
    /\ azure_only = FALSE
    /\ use_azure = TRUE
    /\ azure_detector = TRUE
    /\ detector = TRUE
    /\ azure_result = [kind |-> "ok", entities |-> <<>>]
    /\ presidio_result = [kind |-> "ok", entities |-> <<>>]
    /\ azure_entities \in SeqsUpTo(RecognizerResults, MaxAzureSpans)
    /\ presidio_entities \in SeqsUpTo(RecognizerResults, MaxSpans - MaxAzureSpans)
    /\ dataset = <<>>
    /\ call = NoCall

MergeEntities ==
    /\ call.op = "none"
    /\ call' = [NoCall EXCEPT !.op = "_merge_entities",
                    !.detected_entities = _merge_entities(azure_entities, presidio_entities)]
    /\ UNCHANGED <<shield, backends, azure_entities, presidio_entities, dataset>>

NextMerge == MergeEntities

SpecMerge == InitMerge /\ [][NextMerge]_vars

\* The merge on spans of one entity type: what the merge accepts, displaces
\* and discards is decided by the ranges alone (lines 329-352)
InitMergeRanges ==
    /\ default_strategy = "replace"
    /\ azure_only = FALSE
    /\ use_azure = TRUE
    /\ azure_detector = TRUE
    /\ detector = TRUE
    /\ azure_result = [kind |-> "ok", entities |-> <<>>]
    /\ presidio_result = [kind |-> "ok", entities |-> <<>>]
    /\ azure_entities \in SeqsUpTo({r \in RecognizerResults : r.entity_type = "PERSON"},
                                   MaxAzureSpans)
    /\ presidio_entities \in SeqsUpTo({r \in RecognizerResults : r.entity_type = "PERSON"},
                                      MaxSpans - MaxAzureSpans)
    /\ dataset = <<>>
    /\ call = NoCall

SpecMergeRanges == InitMergeRanges /\ [][NextMerge]_vars

-----------------------------------------------------------------------------
(* eval/metrics.py: DetectionMetrics and EntityMetrics *)

\* a float, as the exact ratio num/den it stands for; den = 0 is the
\* ZeroDivisionError a division by zero raises
Ratio(num, den) == [num |-> num, den |-> den]

ZeroDivisionError == Ratio(0, 0)

Number(n) == Ratio(n, 1)

Times(x, y) == Ratio(x.num * y.num, x.den * y.den)

Plus(x, y) == Ratio(x.num * y.den + y.num * x.den, x.den * y.den)

\* x / y
Over(x, y) ==
    IF x.den = 0 \/ y.den = 0 \/ y.num = 0 THEN ZeroDivisionError
    ELSE Ratio(x.num * y.den, x.den * y.num)

DetectionMetrics(true_positives, false_positives, false_negatives) ==
    [true_positives |-> true_positives, false_positives |-> false_positives,
     false_negatives |-> false_negatives]

precision(self) ==
    LET total == self.true_positives + self.false_positives
    IN  IF total > 0 THEN Over(Number(self.true_positives), Number(total)) ELSE Number(0)

recall(self) ==
    LET total == self.true_positives + self.false_negatives
    IN  IF total > 0 THEN Over(Number(self.true_positives), Number(total)) ELSE Number(0)

\* faulty variant of f1_score: the division is not guarded by p + r > 0
f1_score_unguarded(self) ==
    LET p == precision(self)
        r == recall(self)
    IN  Over(Times(Times(Number(2), p), r), Plus(p, r))

f1_score(self) ==
    LET p == precision(self)
        r == recall(self)
    IN  IF Plus(p, r).num > 0 THEN Over(Times(Times(Number(2), p), r), Plus(p, r))
        ELSE Number(0)

accuracy(self) ==
    LET total == self.true_positives + self.false_positives + self.false_negatives
    IN  IF total > 0 THEN Over(Number(self.true_positives), Number(total)) ELSE Number(0)

DetectionMetrics_to_dict(self) ==
    [true_positives |-> self.true_positives,
     false_positives |-> self.false_positives,
     false_negatives |-> self.false_negatives,
     precision |-> precision(self),
     recall |-> recall(self),
     f1_score |-> f1_score(self),
     accuracy |-> accuracy(self)]

\* faulty variant of DetectionMetrics_add: false_negatives takes other's false_positives
DetectionMetrics_add_mixing_fields(self, other) ==
    DetectionMetrics(self.true_positives + other.true_positives,
                     self.false_positives + other.false_positives,
                     self.false_negatives + other.false_positives)

\* DetectionMetrics.__add__
DetectionMetrics_add(self, other) ==
    DetectionMetrics(self.true_positives + other.true_positives,
                     self.false_positives + other.false_positives,
                     self.false_negatives + other.false_negatives)

\* EntityMetrics.entity_metrics is a function from entity types to
\* DetectionMetrics; add_entity_result creates the entry and adds the flags
add_entity_result(entity_metrics, entity_type, is_true_positive, is_false_positive, is_false_negative) ==
    LET metrics == IF entity_type \in DOMAIN entity_metrics
                   THEN entity_metrics[entity_type] ELSE DetectionMetrics(0, 0, 0)
        flags == DetectionMetrics(IF is_true_positive THEN 1 ELSE 0,
                                  IF is_false_positive THEN 1 ELSE 0,
                                  IF is_false_negative THEN 1 ELSE 0)
    IN  [t \in DOMAIN entity_metrics \cup {entity_type} |->
            IF t = entity_type THEN DetectionMetrics_add(metrics, flags)
            ELSE entity_metrics[t]]

\* the loop of get_overall_metrics over the entries of types
RECURSIVE OverallLoop(_, _)
OverallLoop(entity_metrics, types) ==
    IF types = {} THEN DetectionMetrics(0, 0, 0)
    ELSE LET t == CHOOSE t \in types : TRUE
         IN  DetectionMetrics_add(OverallLoop(entity_metrics, types \ {t}), entity_metrics[t])

get_overall_metrics(entity_metrics) == OverallLoop(entity_metrics, DOMAIN entity_metrics)

EntityMetrics_to_dict(entity_metrics) ==
    [t \in DOMAIN entity_metrics \cup {"overall"} |->
        IF t = "overall" THEN DetectionMetrics_to_dict(get_overall_metrics(entity_metrics))
        ELSE DetectionMetrics_to_dict(entity_metrics[t])]

-----------------------------------------------------------------------------
(* eval/metrics.py: matching predictions to the ground truth *)

\* threshold of calculate_span_overlap and of the evaluator (in hundredths)
OVERLAP_THRESHOLD == 50

Max(a, b) == IF a > b THEN a ELSE b

\* faulty variant of calculate_span_overlap: the ends are taken as inclusive
\* when the intersection is measured
span_overlap_inclusive_ends(predicted, ground_truth, threshold) ==
    LET intersection_start == Max(predicted[1], ground_truth[1])
        intersection_end == Min(predicted[2], ground_truth[2])
        intersection == Max(0, intersection_end - intersection_start + 1)
        union == (predicted[2] - predicted[1]) + (ground_truth[2] - ground_truth[1])
                    - intersection
        iou == IF union > 0 THEN Over(Number(intersection), Number(union)) ELSE Number(0)
    IN  iou.num * 100 >= threshold * iou.den

\* spans are <<start, end>>; the result is iou >= threshold
calculate_span_overlap(predicted, ground_truth, threshold) ==
    LET intersection_start == Max(predicted[1], ground_truth[1])
        intersection_end == Min(predicted[2], ground_truth[2])
        intersection == Max(0, intersection_end - intersection_start)
        union == (predicted[2] - predicted[1]) + (ground_truth[2] - ground_truth[1])
                    - intersection
        iou == IF union > 0 THEN Over(Number(intersection), Number(union)) ELSE Number(0)
    IN  iou.num * 100 >= threshold * iou.den

\* faulty variant of FirstMatch: the inner loop breaks after the first
\* ground-truth entity, matched or not
FirstMatchAtFront(pred, ground_truth, matched_ground_truth, overlap_threshold) ==
    IF /\ Len(ground_truth) > 0
       /\ 1 \notin matched_ground_truth
       /\ pred.entity_type = ground_truth[1].entity_type
       /\ calculate_span_overlap(<<pred.start, pred.end>>,
              <<ground_truth[1].start, ground_truth[1].end>>, overlap_threshold)
    THEN 1 ELSE 0

\* faulty variant of FirstMatch: a ground-truth entity already matched is not skipped
FirstMatchAmongAll(pred, ground_truth, matched_ground_truth, overlap_threshold) ==
    LET hits == {gt_idx \in 1..Len(ground_truth) :
                    /\ pred.entity_type = ground_truth[gt_idx].entity_type
                    /\ calculate_span_overlap(<<pred.start, pred.end>>,
                           <<ground_truth[gt_idx].start, ground_truth[gt_idx].end>>,
                           overlap_threshold)}
    IN  IF hits = {} THEN 0 ELSE CHOOSE g \in hits : \A h \in hits : g <= h

\* the inner loop (lines 180-191): the first ground-truth entity that is not
\* matched yet, has the prediction's type and overlaps it; 0 when there is
\* none.  Indices count from 1.
FirstMatch(pred, ground_truth, matched_ground_truth, overlap_threshold) ==
    LET hits == {gt_idx \in 1..Len(ground_truth) :
                    /\ gt_idx \notin matched_ground_truth
                    /\ pred.entity_type = ground_truth[gt_idx].entity_type
                    /\ calculate_span_overlap(<<pred.start, pred.end>>,
                           <<ground_truth[gt_idx].start, ground_truth[gt_idx].end>>,
                           overlap_threshold)}
    IN  IF hits = {} THEN 0 ELSE CHOOSE g \in hits : \A h \in hits : g <= h

\* matched_predictions and matched_ground_truth after the first k predictions
RECURSIVE MatchLoop(_, _, _, _)
MatchLoop(predictions, ground_truth, overlap_threshold, k) ==
    IF k = 0 THEN [matched_predictions |-> {}, matched_ground_truth |-> {}]
    ELSE LET m == MatchLoop(predictions, ground_truth, overlap_threshold, k - 1)
             gt_idx == FirstMatch(predictions[k], ground_truth, m.matched_ground_truth,
                                  overlap_threshold)
         IN  IF gt_idx = 0 THEN m
             ELSE [matched_predictions |-> m.matched_predictions \cup {k},
                   matched_ground_truth |-> m.matched_ground_truth \cup {gt_idx}]

\* the three sets returned, and the local matched_ground_truth
match_predictions_to_ground_truth(predictions, ground_truth, overlap_threshold) ==
    LET m == MatchLoop(predictions, ground_truth, overlap_threshold, Len(predictions))
    IN  [matched_predictions |-> m.matched_predictions,
         unmatched_predictions |-> (1..Len(predictions)) \ m.matched_predictions,
         unmatched_ground_truth |-> (1..Len(ground_truth)) \ m.matched_ground_truth,
         matched_ground_truth |-> m.matched_ground_truth]

-----------------------------------------------------------------------------
(* eval/evaluator.py: PIIEvaluator *)

\* LabeledEntity.to_dict, without the text
LabeledEntity(start, end, entity_type) ==
    [start |-> start, end |-> end, entity_type |-> entity_type]

\* the ground-truth entities of a text of length n
LabeledEntities(n) ==
    {LabeledEntity(r.start, r.end, r.entity_type) : r \in {r \in RecognizerResults : r.end <= n}}

\* a labelled sample, with the predictions shield.detect_only returns for its text
LabeledSample(predictions, entities) == [predictions |-> predictions, entities |-> entities]

\* per entity type, the tp/fp/fn counts of one sample (lines 120-141)
SampleEntityMetrics(predictions, ground_truth, m) ==
    [t \in {predictions[i].entity_type : i \in 1..Len(predictions)}
           \cup {ground_truth[i].entity_type : i \in m.unmatched_ground_truth} |->
        [tp |-> Cardinality({i \in m.matched_predictions : predictions[i].entity_type = t}),
         fp |-> Cardinality({i \in m.unmatched_predictions : predictions[i].entity_type = t}),
         fn |-> Cardinality({i \in m.unmatched_ground_truth :
                                ground_truth[i].entity_type = t})]]

_evaluate_sample(sample) ==
    LET predictions == sample.predictions
        ground_truth == sample.entities
        m == match_predictions_to_ground_truth(predictions, ground_truth, OVERLAP_THRESHOLD)
    IN  [predictions |-> predictions,
         ground_truth |-> ground_truth,
         entity_metrics |-> SampleEntityMetrics(predictions, ground_truth, m),
         matched_count |-> Cardinality(m.matched_predictions),
         false_positive_count |-> Cardinality(m.unmatched_predictions),
         false_negative_count |-> Cardinality(m.unmatched_ground_truth)]

\* the update of entity_metrics with one sample's counts (lines 70-80)
UpdateMetrics(entity_metrics, metrics) ==
    [t \in DOMAIN entity_metrics \cup DOMAIN metrics |->
        IF t \in DOMAIN metrics
        THEN DetectionMetrics_add(
                 add_entity_result(entity_metrics, t, FALSE, FALSE, FALSE)[t],
                 DetectionMetrics(metrics[t].tp, metrics[t].fp, metrics[t].fn))
        ELSE entity_metrics[t]]

\* entity_metrics after the first k samples of the dataset
RECURSIVE EvaluateLoop(_, _)
EvaluateLoop(samples, k) ==
    IF k = 0 THEN <<>>
    ELSE UpdateMetrics(EvaluateLoop(samples, k - 1),
                       _evaluate_sample(samples[k]).entity_metrics)

\* PIIEvaluator.evaluate, without the statistics of the dataset
PIIEvaluator_evaluate(samples) ==
    LET entity_metrics == EvaluateLoop(samples, Len(samples))
    IN  [op |-> "evaluate",
         overall |-> DetectionMetrics_to_dict(get_overall_metrics(entity_metrics)),
         per_entity |-> EntityMetrics_to_dict(entity_metrics),
         sample_results |-> [k \in 1..Len(samples) |-> _evaluate_sample(samples[k])]]

\* the evaluator's shield, PIIShield() without Azure, and no protect call
EvaluatorShield ==
    /\ default_strategy = "replace"
    /\ azure_only = FALSE
    /\ use_azure = FALSE
    /\ azure_detector = FALSE
    /\ detector = TRUE
    /\ azure_result = NoBackend
    /\ presidio_result = [kind |-> "ok", entities |-> <<>>]
    /\ azure_entities = <<>>
    /\ presidio_entities = <<>>

\* the predictions and the ground-truth entities a text of length n can have
Predictions(n) == {r \in RecognizerResults : r.end <= n}

RECURSIVE Labelled(_, _)
Labelled(samples, k) ==
    IF k = 0 THEN 0
    ELSE Labelled(samples, k - 1) + Len(samples[k].predictions) + Len(samples[k].entities)

(* One sample: Init draws it, MatchPredictions matches its predictions *)

InitMatch ==
    /\ EvaluatorShield
    /\ \E predictions \in SeqsUpTo(Predictions(TextLen), MaxLabelled) :
       \E entities \in SeqsUpTo(LabeledEntities(TextLen), MaxLabelled - Len(predictions)) :
          dataset = <<LabeledSample(predictions, entities)>>
    /\ call = NoCall

MatchPredictions ==
    /\ call.op = "none"
    /\ call' = [op |-> "match_predictions_to_ground_truth",
                matching |-> match_predictions_to_ground_truth(
                                 dataset[1].predictions, dataset[1].entities,
                                 OVERLAP_THRESHOLD),
                result |-> _evaluate_sample(dataset[1])]
    /\ UNCHANGED <<shield, backends, azure_entities, presidio_entities, dataset>>

NextMatch == MatchPredictions

SpecMatch == InitMatch /\ [][NextMatch]_vars

(* One sample of one entity type, matched at the overlap_threshold the
   evaluator was built with (PIIEvaluator.__init__, line 35) *)

\* the overlap_threshold values an evaluator is built with (in hundredths)
OverlapThresholds == {0, OVERLAP_THRESHOLD, 100}

InitMatchAt ==
    /\ EvaluatorShield
    /\ \E predictions \in SeqsUpTo({r \in Predictions(MatchLen) : r.entity_type = "PERSON"},
                                    MaxPredictions) :
       \E entities \in SeqsUpTo({e \in LabeledEntities(MatchLen) : e.entity_type = "PERSON"},
                                 MaxGroundTruth) :
          dataset = <<LabeledSample(predictions, entities)>>
    /\ call = NoCall

MatchPredictionsAt(overlap_threshold) ==
    /\ call.op = "none"
    /\ call' = [op |-> "match_predictions_to_ground_truth",
                overlap_threshold |-> overlap_threshold,
                matching |-> match_predictions_to_ground_truth(
                                 dataset[1].predictions, dataset[1].entities,
                                 overlap_threshold)]
    /\ UNCHANGED <<shield, backends, azure_entities, presidio_entities, dataset>>

NextMatchAt == \E overlap_threshold \in OverlapThresholds : MatchPredictionsAt(overlap_threshold)

SpecMatchAt == InitMatchAt /\ [][NextMatchAt]_vars

(* A dataset: Init draws it, Evaluate evaluates it *)

InitEval ==
    /\ EvaluatorShield
    /\ dataset = <<>>
    /\ call = NoCall

\* EvaluationDataset.add_sample
add_sample(sample) ==
    /\ call.op = "none"
    /\ Len(dataset) < MaxSamples
    /\ dataset' = Append(dataset, sample)
    /\ UNCHANGED <<shield, backends, azure_entities, presidio_entities, call>>

AddSample ==
    \E predictions \in SeqsUpTo(Predictions(SampleLen),
                                MaxLabelled - Labelled(dataset, Len(dataset))) :
    \E entities \in SeqsUpTo(LabeledEntities(SampleLen),
                             MaxLabelled - Labelled(dataset, Len(dataset)) - Len(predictions)) :
       add_sample(LabeledSample(predictions, entities))

Evaluate ==
    /\ call.op = "none"
    /\ call' = PIIEvaluator_evaluate(dataset)
    /\ UNCHANGED <<shield, backends, azure_entities, presidio_entities, dataset>>

NextEval ==
    \/ AddSample
    \/ Evaluate

SpecEval == InitEval /\ [][NextEval]_vars

(* Counts: Init draws a DetectionMetrics, ToDict computes its ratios *)

InitMetrics ==
    /\ EvaluatorShield
    /\ dataset = <<>>
    /\ call \in {[op |-> "DetectionMetrics", metrics |-> DetectionMetrics(tp, fp, fn)] :
                    <<tp, fp, fn>> \in (0..MaxCount) \X (0..MaxCount) \X (0..MaxCount)}

ToDict ==
    /\ call.op = "DetectionMetrics"
    /\ call' = [op |-> "to_dict", metrics |-> call.metrics,
                dict |-> DetectionMetrics_to_dict(call.metrics)]
    /\ UNCHANGED <<shield, backends, azure_entities, presidio_entities, dataset>>

NextMetrics == ToDict

SpecMetrics == InitMetrics /\ [][NextMetrics]_vars

-----------------------------------------------------------------------------
(* Vocabulary of the properties *)

\* two spans overlap iff their ranges intersect
Overlaps(a, b) == a.start < b.end /\ b.start < a.end

Width(a) == a.end - a.start

\* the character positions some span of the list covers
Covered(spans) == {x \in 0..(MaxPos - 1) : \E i \in 1..Len(spans) :
                        spans[i].start <= x /\ x < spans[i].end}

PairwiseNonOverlapping(spans) ==
    \A i, j \in 1..Len(spans) : i # j => ~Overlaps(spans[i], spans[j])

SortedByStart(spans) ==
    \A i, j \in 1..Len(spans) : i < j => spans[i].start <= spans[j].start

\* every reordering of a list
Permutations_(s) ==
    {[i \in 1..Len(s) |-> s[f[i]]] :
        f \in {g \in [1..Len(s) -> 1..Len(s)] :
                  \A i, j \in 1..Len(s) : i # j => g[i] # g[j]}}

all_entities == azure_entities \o presidio_entities

Merged == call.op = "_merge_entities"

-----------------------------------------------------------------------------
(* Properties of _merge_entities, under SpecMerge *)

\* C1: the list _merge_entities returns contains no two spans whose ranges
\* intersect, whatever the two input lists are.
C1_NonOverlap == Merged => PairwiseNonOverlapping(call.detected_entities)

\* C1 witness: overlapping inputs were merged and two spans survive.
C1_Witness ==
    /\ Merged
    /\ ~PairwiseNonOverlapping(all_entities)
    /\ Len(call.detected_entities) >= 2

\* C2: the merge returns the same list of spans (ranges, entity types and
\* scores) for every permutation of the input spans and every way of
\* splitting them between the Azure list and the Presidio list.
C2_OrderIndependent ==
    Merged => \A q \in Permutations_(all_entities) : \A k \in 0..Len(q) :
                 _merge_entities(SubSeq(q, 1, k), SubSeq(q, k + 1, Len(q)))
                    = call.detected_entities

\* C3: every character position covered by an input span is covered by a span
\* of the merge output.
C3_NoRegionExposed == Merged => Covered(all_entities) \subseteq Covered(call.detected_entities)

\* C4: two overlapping input spans of different widths merge to exactly the
\* wider one, whichever list it came from and whatever the entity types.
C4_WidestWins ==
    (/\ Merged
     /\ Len(all_entities) = 2
     /\ Overlaps(all_entities[1], all_entities[2])
     /\ Width(all_entities[1]) # Width(all_entities[2]))
    => call.detected_entities =
          <<IF Width(all_entities[1]) > Width(all_entities[2])
            THEN all_entities[1] ELSE all_entities[2]>>

\* C4 witness: Presidio's span starts later, is wider and of another type than
\* the Azure span it overlaps, and is the only span returned.
C4_Witness ==
    /\ Merged
    /\ Len(azure_entities) = 1 /\ Len(presidio_entities) = 1
    /\ Overlaps(azure_entities[1], presidio_entities[1])
    /\ presidio_entities[1].start > azure_entities[1].start
    /\ Width(presidio_entities[1]) > Width(azure_entities[1])
    /\ presidio_entities[1].entity_type # azure_entities[1].entity_type
    /\ call.detected_entities = presidio_entities

\* C9: every position masked when Azure fails (the merge of Presidio's list
\* alone) is masked when both detectors succeed (the merge of both lists).
C9_FailureOnlyReducesCoverage ==
    Merged => Covered(_merge_entities(<<>>, presidio_entities))
                 \subseteq Covered(call.detected_entities)

-----------------------------------------------------------------------------
(* Properties of protect and detect_only, under Spec *)

Called == call.op \in {"protect", "detect_only"}

DualMode == ~azure_only /\ use_azure /\ azure_detector /\ detector

PresidioOnlyMode == ~azure_only /\ ~DualMode

AzureFails == azure_result.kind \in {"is_error", "raises"}

PresidioFails == presidio_result.kind = "raises"

\* C5: in every mode the span list protect passes to the masker is pairwise
\* non-overlapping and sorted by start.
C5_MaskerInputReconciled ==
    (call.op = "protect" /\ call.masker_called)
    => /\ PairwiseNonOverlapping(call.detected_entities)
       /\ SortedByStart(call.detected_entities)

\* C6: in dual mode, when the Azure call fails (is_error result or exception)
\* and Presidio succeeds, protect raises nothing and its detected_entities are
\* the merge of Presidio's list with an empty list, so only Presidio's spans.
C6_AzureFailureFallsBack ==
    (call.op = "protect" /\ DualMode /\ AzureFails /\ ~PresidioFails)
    => /\ ~call.raised
       /\ call.detected_entities = _merge_entities(<<>>, presidio_result.entities)
       /\ Range(call.detected_entities) \subseteq Range(presidio_result.entities)

\* C6 witness: Azure raised, Presidio returned spans, protect returned some.
C6_Witness ==
    /\ call.op = "protect" /\ DualMode
    /\ azure_result.kind = "raises" /\ ~PresidioFails
    /\ ~call.raised
    /\ call.detected_entities # <<>>

\* C7: in dual mode both detectors are invoked on every call, and the failure
\* of exactly one of them, Azure or Presidio, is soft: the call raises nothing
\* and returns the surviving detector's spans.
C7_DualFailureSoft ==
    (Called /\ DualMode)
    => /\ call.azure_called /\ call.presidio_called
       /\ (AzureFails /\ ~PresidioFails) =>
             /\ ~call.raised
             /\ call.detected_entities = _merge_entities(<<>>, presidio_result.entities)
       /\ (~AzureFails /\ PresidioFails) =>
             /\ ~call.raised
             /\ call.detected_entities =
                   _merge_entities(_convert_azure_to_presidio(azure_result.entities), <<>>)

\* C8: in a single-detector mode the detector's failure propagates: the call
\* raises and returns no result (nothing is masked, nothing is returned).
C8_SingleModeFailurePropagates ==
    (/\ Called
     /\ \/ azure_only /\ (AzureFails \/ ~azure_detector)
        \/ PresidioOnlyMode /\ PresidioFails)
    => /\ call.raised
       /\ ~call.masker_called
       /\ call.detected_entities = <<>> /\ call.masked_text = <<>>

\* C8 witness: azure_only, Azure returned an is_error result, protect raised.
C8_Witness ==
    /\ call.op = "protect"
    /\ azure_only /\ azure_detector /\ azure_result.kind = "is_error"
    /\ call.raised

\* C12: a shield constructed with azure_only=True has its Azure detector
\* initialized, so that a required-Azure misconfiguration is reported by the
\* constructor and never first by a call.
C12_AzureOnlyDetectorInitialized == azure_only => azure_detector

\* C13: no call changes azure_only, use_azure, which detectors are initialized
\* or the default strategy, and a call made after another one with the same
\* arguments (same text, same detector outputs) gives the same result.
C13_ModeFixed ==
    [][/\ shield' = shield
       /\ (/\ call.op = call'.op
           /\ call.strategy = call'.strategy
           /\ call.score_threshold = call'.score_threshold) => call' = call]_vars

\* C13 witness: a call in which Azure failed has returned Presidio's spans,
\* with a strategy other than the default one, and the shield is in dual mode
\* as before.
C13_Witness ==
    /\ DualMode /\ AzureFails /\ ~PresidioFails
    /\ call.op = "protect" /\ call.returned
    /\ call.strategy # default_strategy
    /\ azure_entities = <<>> /\ presidio_entities # <<>>

-----------------------------------------------------------------------------
(* Properties of the result, under Spec *)

RECURSIVE SumOver(_, _)
SumOver(count, types) ==
    IF types = {} THEN 0
    ELSE LET t == CHOOSE t \in types : TRUE
         IN  count[t] + SumOver(count, types \ {t})

\* C19: entity_count maps each entity type to the number of spans of that type
\* in detected_entities: the counts sum to len(detected_entities), no listed
\* type has count 0, and the counts do not depend on the order of the spans.
C19_EntityCount ==
    (call.op = "protect" /\ call.returned)
    => LET entities == call.detected_entities
           count == call.entity_count
       IN  /\ DOMAIN count = {entities[i].entity_type : i \in 1..Len(entities)}
           /\ \A t \in DOMAIN count :
                 /\ count[t] = Cardinality({i \in 1..Len(entities) :
                                               entities[i].entity_type = t})
                 /\ count[t] > 0
           /\ SumOver(count, DOMAIN count) = Len(entities)
           /\ \A q \in Permutations_(entities) : _count_entities(q) = count

\* C19 witness: protect returned two spans of one entity type, counted as 2.
C19_Witness ==
    /\ call.op = "protect" /\ call.returned
    /\ Len(call.detected_entities) = 2
    /\ call.detected_entities[1].entity_type = call.detected_entities[2].entity_type
    /\ call.entity_count[call.detected_entities[1].entity_type] = 2

-----------------------------------------------------------------------------
(* Properties of _merge_entities, under SpecMerge (continued) *)

\* C18: the list _merge_entities returns is in ascending order of start, for
\* every input.
C18_SortedOutput == Merged => SortedByStart(call.detected_entities)

\* C18 witness: the input is not in order of start and two spans are returned.
C18_Witness ==
    /\ Merged
    /\ ~SortedByStart(all_entities)
    /\ Len(call.detected_entities) >= 2
    /\ call.detected_entities[1].start < call.detected_entities[2].start

-----------------------------------------------------------------------------
(* Properties of the score threshold, under SpecThreshold *)

\* C20: every span protect or detect_only returns has a score that reaches the
\* score_threshold passed to the call, in every mode.
C20_ScoreThreshold ==
    (Called /\ call.returned)
    => \A i \in 1..Len(call.detected_entities) :
          call.detected_entities[i].score >= call.score_threshold

-----------------------------------------------------------------------------
(* Properties of calls whose detector never returns, under SpecTimeout *)

AzureHangs == azure_result.kind = "hangs"

PresidioHangs == presidio_result.kind = "hangs"

\* C14: every protect call completes, a detector that does not return being
\* treated as a failure of that detector: protect raises in a single-detector
\* mode, and in dual mode returns the spans of the detector that answered.
C14_ProtectCompletes ==
    call.op = "protect"
    => /\ call.returned \/ call.raised
       /\ (azure_only /\ AzureHangs) => call.raised
       /\ (PresidioOnlyMode /\ PresidioHangs) => call.raised
       /\ (DualMode /\ AzureHangs /\ presidio_result.kind = "ok") =>
             /\ call.returned
             /\ call.detected_entities = _merge_entities(<<>>, presidio_result.entities)

-----------------------------------------------------------------------------
(* Properties of the matching, under SpecMatch *)

Matched == call.op = "match_predictions_to_ground_truth"

\* C15: the matching is one-to-one and partitions both lists: as many
\* predictions are matched as ground-truth entities, so that TP + FP is the
\* number of predictions and TP + FN the number of ground-truth entities, in
\* the sample's totals and in its per-type counts.
C15_MatchingPartitions ==
    Matched
    => LET predictions == dataset[1].predictions
           ground_truth == dataset[1].entities
           m == call.matching
           r == call.result
           types == DOMAIN r.entity_metrics
       IN  /\ m.matched_predictions \cup m.unmatched_predictions = 1..Len(predictions)
           /\ m.matched_predictions \cap m.unmatched_predictions = {}
           /\ m.matched_ground_truth \cup m.unmatched_ground_truth = 1..Len(ground_truth)
           /\ m.matched_ground_truth \cap m.unmatched_ground_truth = {}
           /\ Cardinality(m.matched_predictions) = Cardinality(m.matched_ground_truth)
           /\ r.matched_count + r.false_positive_count = Len(predictions)
           /\ r.matched_count + r.false_negative_count = Len(ground_truth)
           /\ SumOver([t \in types |-> r.entity_metrics[t].tp + r.entity_metrics[t].fp],
                      types) = Len(predictions)
           /\ SumOver([t \in types |-> r.entity_metrics[t].tp + r.entity_metrics[t].fn],
                      types) = Len(ground_truth)

\* C15 witness: two predictions overlap the one ground-truth entity and have
\* its type; the first is matched and the second is a false positive.
C15_Witness ==
    /\ Matched
    /\ Len(dataset[1].predictions) = 2 /\ Len(dataset[1].entities) = 1
    /\ \A i \in 1..2 :
          /\ dataset[1].predictions[i].entity_type = dataset[1].entities[1].entity_type
          /\ calculate_span_overlap(
                 <<dataset[1].predictions[i].start, dataset[1].predictions[i].end>>,
                 <<dataset[1].entities[1].start, dataset[1].entities[1].end>>,
                 OVERLAP_THRESHOLD)
    /\ call.matching.matched_predictions = {1}
    /\ call.result.false_positive_count = 1

-----------------------------------------------------------------------------
(* Properties of the ratios, under SpecMetrics *)

\* the ratio is a number between 0 and 1, not a division error
InUnitInterval(x) == x.den > 0 /\ 0 <= x.num /\ x.num <= x.den

\* the ratio is the number num/den
Is(x, num, den) == x.den # 0 /\ x.num * den = num * x.den

-----------------------------------------------------------------------------
(* Properties of evaluate, under SpecEval *)

Evaluated == call.op = "evaluate"

\* the entity types of the per-entity table
EntityTypes == DOMAIN call.per_entity \ {"overall"}

\* the count (tp, fp or fn) of an entity type in one sample's result
SampleCount(k, t, field) ==
    IF t \in DOMAIN call.sample_results[k].entity_metrics
    THEN call.sample_results[k].entity_metrics[t][field] ELSE 0

RECURSIVE SumOfSamples(_, _, _)
SumOfSamples(k, t, field) ==
    IF k = 0 THEN 0 ELSE SumOfSamples(k - 1, t, field) + SampleCount(k, t, field)

\* C17: the overall TP, FP and FN are the sums of the per-type counts, which
\* are the sums over the samples of the type's per-sample counts, and the
\* overall ratios are computed from these sums.
C17_MicroAveraged ==
    Evaluated
    => LET n == Len(dataset)
           overall == call.overall
           per_entity == call.per_entity
       IN  /\ \A t \in EntityTypes :
                 /\ per_entity[t].true_positives = SumOfSamples(n, t, "tp")
                 /\ per_entity[t].false_positives = SumOfSamples(n, t, "fp")
                 /\ per_entity[t].false_negatives = SumOfSamples(n, t, "fn")
           /\ overall.true_positives =
                 SumOver([t \in EntityTypes |-> per_entity[t].true_positives], EntityTypes)
           /\ overall.false_positives =
                 SumOver([t \in EntityTypes |-> per_entity[t].false_positives], EntityTypes)
           /\ overall.false_negatives =
                 SumOver([t \in EntityTypes |-> per_entity[t].false_negatives], EntityTypes)
           /\ per_entity["overall"] = overall
           /\ IF overall.true_positives + overall.false_positives = 0
              THEN overall.precision.num = 0
              ELSE Is(overall.precision, overall.true_positives,
                      overall.true_positives + overall.false_positives)
           /\ IF overall.true_positives + overall.false_negatives = 0
              THEN overall.recall.num = 0
              ELSE Is(overall.recall, overall.true_positives,
                      overall.true_positives + overall.false_negatives)

\* C17 witness: two samples and two entity types, one type matched in one
\* sample and the other type a false positive in the other sample: the overall
\* recall is 1 while the mean of the two per-type recalls is 1/2.
C17_Witness ==
    /\ Evaluated
    /\ Len(dataset) = 2
    /\ call.sample_results[1].matched_count = 1
    /\ call.sample_results[2].false_positive_count = 1
    /\ Cardinality(EntityTypes) = 2
    /\ Is(call.overall.recall, 1, 1)
    /\ \E t \in EntityTypes : call.per_entity[t].recall.num = 0
    /\ \E t \in EntityTypes : Is(call.per_entity[t].recall, 1, 1)

-----------------------------------------------------------------------------
(* Further properties of _merge_entities, under SpecMerge and SpecMergeRanges *)

\* all_entities after the sort of line 329
sorted_entities == SortByMergeKey(all_entities)

\* the iterations of the loop of line 335 from the k-th on: the accepted list
\* before the iteration, its candidate, and what the inner loop decides
RECURSIVE Iterations(_, _, _)
Iterations(sorted, k, merged) ==
    IF k > Len(sorted) THEN {}
    ELSE UNION {{[merged |-> merged, entity |-> sorted[k],
                  scan |-> ScanMerged(sorted[k], merged, 1, {}),
                  after |-> after]}
                \cup Iterations(sorted, k + 1, after) :
                after \in {MergeStep(merged, sorted[k])}}

\* the accepted spans of an iteration that its candidate overlaps
Overlapped(it) ==
    {i \in 1..Len(it.merged) : _entities_overlap_simple(it.entity, it.merged[i])}

\* the first input span that has the range of span
FirstWithRange(span) ==
    all_entities[CHOOSE i \in 1..Len(all_entities) :
                    /\ all_entities[i].start = span.start /\ all_entities[i].end = span.end
                    /\ \A j \in 1..(i - 1) :
                          ~(all_entities[j].start = span.start /\ all_entities[j].end = span.end)]

\* C22: a candidate that overlaps an accepted span of its own width is
\* discarded and leaves the accepted list as it was; of the input spans with
\* one and the same range, the first of the concatenation (Azure's before
\* Presidio's) is the one the output holds.
C22_TieKeepsFirst ==
    Merged
    => /\ \A it \in Iterations(sorted_entities, 1, <<>>) :
             (\E i \in Overlapped(it) : Width(it.merged[i]) = Width(it.entity))
             => it.after = it.merged
       /\ \A j \in 1..Len(call.detected_entities) :
             call.detected_entities[j] = FirstWithRange(call.detected_entities[j])

\* C22 witness: Azure and Presidio report the same range with different entity
\* types and the output is Azure's span.
C22_Witness ==
    /\ Merged
    /\ Len(azure_entities) = 1 /\ Len(presidio_entities) = 1
    /\ azure_entities[1].start = presidio_entities[1].start
    /\ azure_entities[1].end = presidio_entities[1].end
    /\ azure_entities[1].entity_type # presidio_entities[1].entity_type
    /\ call.detected_entities = azure_entities

\* C25: every input span that is not in the output overlaps a span of the
\* output that is at least as wide.
C25_DroppedOnlyForWider ==
    Merged
    => \A i \in 1..Len(all_entities) :
          all_entities[i] \notin Range(call.detected_entities)
          => \E j \in 1..Len(call.detected_entities) :
                /\ Overlaps(all_entities[i], call.detected_entities[j])
                /\ Width(call.detected_entities[j]) >= Width(all_entities[i])

\* C26: in every iteration the candidate overlaps at most one accepted span;
\* accepted spans are removed only in an iteration that accepts its candidate,
\* and a discarded candidate leaves the accepted list as it was.
C26_AtMostOneOverlap ==
    Merged
    => \A it \in Iterations(sorted_entities, 1, <<>>) :
          /\ Cardinality(Overlapped(it)) <= 1
          /\ it.scan.entities_to_remove # {} => it.scan.should_add
          /\ ~it.scan.should_add => it.after = it.merged

\* C26 witness: one candidate displaces the accepted span it overlaps and
\* another candidate is discarded.
C26_Witness ==
    /\ Merged
    /\ \E it \in Iterations(sorted_entities, 1, <<>>) :
          it.scan.entities_to_remove # {} /\ it.scan.should_add
    /\ \E it \in Iterations(sorted_entities, 1, <<>>) : ~it.scan.should_add

\* the (start, end) ranges of a list of spans
Ranges(spans) == {<<spans[i].start, spans[i].end>> : i \in 1..Len(spans)}

\* C27: the set of ranges in the merge output is the same for every
\* permutation of the input spans and every way of splitting them between the
\* Azure list and the Presidio list: the output of every permutation given as
\* one list, and of every split of the lists at hand, has the ranges of the
\* output at hand (every permutation is itself the lists at hand of a state).
C27_RangesOrderIndependent ==
    Merged
    => /\ \A q \in Permutations_(all_entities) :
             Ranges(_merge_entities(<<>>, q)) = Ranges(call.detected_entities)
       /\ \A k \in 0..Len(all_entities) :
             Ranges(_merge_entities(SubSeq(all_entities, 1, k),
                                    SubSeq(all_entities, k + 1, Len(all_entities))))
                = Ranges(call.detected_entities)

\* C27 witness: three spans given in descending order of start, of which the
\* merge drops at least one.
C27_Witness ==
    /\ Merged
    /\ Len(all_entities) = 3
    /\ all_entities[1].start > all_entities[2].start
    /\ all_entities[2].start > all_entities[3].start
    /\ Len(call.detected_entities) < 3

\* C29: merging the output again, as the Azure list or as the Presidio list
\* with the other list empty, returns the output.
C29_Idempotent ==
    Merged
    => /\ _merge_entities(call.detected_entities, <<>>) = call.detected_entities
       /\ _merge_entities(<<>>, call.detected_entities) = call.detected_entities

\* C29 witness: a merge that dropped a span and returned two.
C29_Witness ==
    /\ Merged
    /\ Len(call.detected_entities) = 2
    /\ Len(all_entities) = 3

\* the number of times span occurs in the list
Occurrences(span, spans) == Cardinality({i \in 1..Len(spans) : spans[i] = span})

\* C30: every span of the output is an input span with its start, end,
\* entity type and score, and the output holds no span more often than the
\* input does, so never more spans than were given.
C30_OutputFromInput ==
    Merged
    => /\ Len(call.detected_entities) <= Len(all_entities)
       /\ \A j \in 1..Len(call.detected_entities) :
             /\ call.detected_entities[j] \in Range(all_entities)
             /\ Occurrences(call.detected_entities[j], call.detected_entities)
                   <= Occurrences(call.detected_entities[j], all_entities)

\* C30 witness: two overlapping spans of different ranges and a third span
\* apart from them; the output is the wider one and the third.
C30_Witness ==
    /\ Merged
    /\ Len(all_entities) = 3
    /\ Overlaps(all_entities[1], all_entities[2])
    /\ Width(all_entities[1]) < Width(all_entities[2])
    /\ ~Overlaps(all_entities[3], all_entities[1])
    /\ ~Overlaps(all_entities[3], all_entities[2])
    /\ Range(call.detected_entities) = {all_entities[2], all_entities[3]}

-----------------------------------------------------------------------------
(* Properties of calls that pass entities, under SpecEntities *)

\* C21: when a call passes a non-empty entities list, every span protect or
\* detect_only returns has an entity type of that list, in every mode.
C21_EntitiesFilter ==
    (Called /\ call.returned /\ call.entities # {})
    => \A i \in 1..Len(call.detected_entities) :
          call.detected_entities[i].entity_type \in call.entities

-----------------------------------------------------------------------------
(* Properties of a shield whose Azure detector failed to initialize, under Spec *)

\* what __init__ leaves when AzurePIIDetector(...) is attempted (endpoint set,
\* SDK available, use_azure not False) and raises, azure_only being False
FallbackShields == {PIIShield_init(TRUE, TRUE, u, FALSE, FALSE) : u \in {"None", "True"}}

\* the shield at hand is one of them
IsFallbackShield ==
    \E c \in FallbackShields :
        /\ ~c.raised
        /\ azure_only = c.azure_only /\ use_azure = c.use_azure
        /\ azure_detector = c.azure_detector /\ detector = c.detector

\* C23: when the Azure detector fails to initialize and azure_only is False,
\* construction succeeds with use_azure False, no Azure detector and the
\* Presidio detector initialized, and no protect or detect_only call on that
\* shield invokes Azure.
C23_InitFailureFallsBack ==
    /\ \A c \in FallbackShields :
          ~c.raised /\ ~c.azure_only /\ ~c.use_azure /\ ~c.azure_detector /\ c.detector
    /\ (IsFallbackShield /\ Called) => (~call.azure_called /\ azure_entities = <<>>)

\* C23 witness: protect on such a shield returned spans, all from Presidio.
C23_Witness ==
    /\ IsFallbackShield
    /\ call.op = "protect" /\ call.returned
    /\ call.presidio_called /\ ~call.azure_called
    /\ call.detected_entities # <<>>
    /\ call.detected_entities = presidio_entities

-----------------------------------------------------------------------------
(* Properties of the matching at any overlap threshold, under SpecMatchAt *)

\* the two spans share a character
Intersect(pred, gt) == pred.start < gt.end /\ gt.start < pred.end

\* no matched prediction is disjoint from every ground-truth span, and
\* calculate_span_overlap is False for every disjoint pair of the sample
DisjointNeverMatch ==
    /\ \A i \in 1..Len(dataset[1].predictions) : \A j \in 1..Len(dataset[1].entities) :
          ~Intersect(dataset[1].predictions[i], dataset[1].entities[j])
          => ~calculate_span_overlap(
                 <<dataset[1].predictions[i].start, dataset[1].predictions[i].end>>,
                 <<dataset[1].entities[j].start, dataset[1].entities[j].end>>,
                 call.overlap_threshold)
    /\ \A i \in call.matching.matched_predictions :
          \E j \in 1..Len(dataset[1].entities) :
              Intersect(dataset[1].predictions[i], dataset[1].entities[j])

\* C24 as stated: for every threshold in [0,1], calculate_span_overlap is
\* False for two spans that share no character, so a prediction that
\* intersects no ground-truth span is never a true positive.
C24_DisjointNeverMatch == Matched => DisjointNeverMatch

\* C24 amended: the same for every threshold greater than 0; at threshold 0
\* the IoU 0 of two disjoint spans reaches the threshold.
C24_DisjointNeverMatchAboveZero ==
    (Matched /\ call.overlap_threshold > 0) => DisjointNeverMatch

\* C24 witness: at a positive threshold, a prediction that intersects no
\* ground-truth span is a false positive next to a matched prediction.
C24_Witness ==
    /\ Matched /\ call.overlap_threshold > 0
    /\ Len(dataset[1].predictions) = 2 /\ Len(dataset[1].entities) >= 1
    /\ \A j \in 1..Len(dataset[1].entities) :
          ~Intersect(dataset[1].predictions[2], dataset[1].entities[j])
    /\ call.matching.matched_predictions = {1}
    /\ call.matching.unmatched_predictions = {2}

\* TP, FP and FN of a matching
Counts(m) ==
    <<Cardinality(m.matched_predictions), Cardinality(m.unmatched_predictions),
      Cardinality(m.unmatched_ground_truth)>>

\* the counts are those of every reordering of the two lists
CountsOrderIndependent ==
    \A predictions \in Permutations_(dataset[1].predictions) :
    \A entities \in Permutations_(dataset[1].entities) :
        Counts(match_predictions_to_ground_truth(predictions, entities,
                                                 call.overlap_threshold))
           = Counts(call.matching)

\* the prediction and the ground-truth entity can be matched
Matchable(pred, gt) ==
    /\ pred.entity_type = gt.entity_type
    /\ calculate_span_overlap(<<pred.start, pred.end>>, <<gt.start, gt.end>>,
                              call.overlap_threshold)

\* every prediction can be matched with at most one ground-truth entity, or
\* every ground-truth entity with at most one prediction
Unambiguous ==
    \/ \A i \in 1..Len(dataset[1].predictions) :
          Cardinality({j \in 1..Len(dataset[1].entities) :
              Matchable(dataset[1].predictions[i], dataset[1].entities[j])}) <= 1
    \/ \A j \in 1..Len(dataset[1].entities) :
          Cardinality({i \in 1..Len(dataset[1].predictions) :
              Matchable(dataset[1].predictions[i], dataset[1].entities[j])}) <= 1

\* C28 as stated: the TP, FP and FN counts of the greedy matching do not
\* depend on the order of the predictions or of the ground-truth spans.
C28_CountsOrderIndependent == Matched => CountsOrderIndependent

\* C28 amended: the counts do not depend on the two orders when every
\* prediction can be matched with at most one ground-truth span, or every
\* ground-truth span with at most one prediction.
C28_CountsOrderIndependentUnambiguous ==
    (Matched /\ Unambiguous) => CountsOrderIndependent

\* C28 witness: two predictions and two ground-truth spans, each prediction
\* matchable with one span only, its own, and both matched.
C28_Witness ==
    /\ Matched /\ Unambiguous
    /\ Len(dataset[1].predictions) = 2 /\ Len(dataset[1].entities) = 2
    /\ dataset[1].predictions[1].start # dataset[1].predictions[2].start
    /\ Matchable(dataset[1].predictions[1], dataset[1].entities[2])
    /\ Matchable(dataset[1].predictions[2], dataset[1].entities[1])
    /\ call.matching.matched_predictions = {1, 2}

====
